---- MODULE Spec2Model ----
(***************************************************************************)
(* Randomness and bias analysis of the random-word evaluation package.     *)
(*                                                                         *)
(* The evaluation loop collects one SelectionRun per trial; the analysis   *)
(* functions (frequency counts, runs test, chi-square, entropy) are pure   *)
(* functions of the collected records or of a frequency distribution.      *)
(*                                                                         *)
(* JavaScript numbers are modelled exactly: a finite value is a rational   *)
(* num/den, and NaN, +Infinity and -Infinity are separate kinds.  The      *)
(* z-score of the runs test, a quotient by a square root, is kept as its   *)
(* sign and its exact square.                                              *)
(***************************************************************************)
EXTENDS Integers, Sequences, FiniteSets, TLC

VARIABLES
    selections,           \* rawSelections collected by the evaluation loop
    pc,                   \* "running" while the loop collects, "done" after,
                          \* "tracked" after a tracked evaluation returned
    selectedWords,        \* EvaluationResult.selectedWords
    positionBias,         \* EvaluationResult.positionBias
    observed,             \* distribution handed to a distribution function
    totalObservations,    \* total count handed with it
    expectedProbability,  \* optional expected-probability map
    result,               \* value returned by the last call
    options,              \* option list handed to runSingleEvaluation
    shuffledOptions,      \* the copy that shuffleArray is shuffling
    shuffleIndex,         \* i of the loop of shuffleArray
    runKind,              \* "runEvaluation" or "runTrackedEvaluation"
    runPc,                \* position of the run function in its code
    callbacks,            \* the callbacks given in RunEvaluationOptions
    numItems,             \* items the generator yields, or numRuns
    status,               \* stored status of the evaluation run record
    stored,               \* model responses stored for the run
    responses,            \* the local list of the run function
    events,               \* status updates, saves and callbacks, in order
    thrown                \* the errors thrown so far, the first one first

\* state of one runSingleEvaluation
trialVars == <<options, shuffledOptions, shuffleIndex>>

\* state of one tracked run
runVars == <<runKind, runPc, callbacks, numItems, status, stored, responses,
             events, thrown>>

vars == <<selections, pc, selectedWords, positionBias,
          observed, totalObservations, expectedProbability, result,
          trialVars, runVars>>

----------------------------------------------------------------------------
(* Bounds *)

MaxRuns == 10        \* longest record sequence collected by the loop
MaxHalf == 11        \* largest m of the patterned 2m-record sequences

----------------------------------------------------------------------------
(* Numbers *)

Abs(x) == IF x < 0 THEN -x ELSE x

Sign(x) == IF x < 0 THEN -1 ELSE IF x > 0 THEN 1 ELSE 0

RECURSIVE GCD(_, _)
GCD(a, b) == IF b = 0 THEN a ELSE GCD(b, a % b)

NaN == [kind |-> "nan", num |-> 0, den |-> 1]
PosInf == [kind |-> "inf", num |-> 1, den |-> 1]
NegInf == [kind |-> "inf", num |-> -1, den |-> 1]

\* the finite number n/d (d # 0), in lowest terms with a positive denominator
Fin(n, d) ==
    LET g == GCD(Abs(n), Abs(d))
        s == IF d < 0 THEN -1 ELSE 1
    IN [kind |-> "fin", num |-> s * (n \div g), den |-> s * (d \div g)]

Zero == Fin(0, 1)

IsFinite(x) == x.kind = "fin"

Neg(x) == [x EXCEPT !.num = -@]

\* IEEE addition
Add(x, y) ==
    IF x.kind = "nan" \/ y.kind = "nan" THEN NaN
    ELSE IF x.kind = "inf" /\ y.kind = "inf"
    THEN IF x.num = y.num THEN x ELSE NaN
    ELSE IF x.kind = "inf" THEN x
    ELSE IF y.kind = "inf" THEN y
    ELSE Fin(x.num * y.den + y.num * x.den, x.den * y.den)

Sub(x, y) == Add(x, Neg(y))

\* IEEE multiplication: Infinity * 0 is NaN
Mul(x, y) ==
    IF x.kind = "nan" \/ y.kind = "nan" THEN NaN
    ELSE IF x.kind = "inf" \/ y.kind = "inf"
    THEN IF x.num = 0 \/ y.num = 0 THEN NaN
         ELSE IF Sign(x.num) = Sign(y.num) THEN PosInf ELSE NegInf
    ELSE Fin(x.num * y.num, x.den * y.den)

\* IEEE division: x/0 is +-Infinity, 0/0 and Infinity/Infinity are NaN,
\* x/Infinity is 0 (the sign of a zero is not kept)
Div(x, y) ==
    IF x.kind = "nan" \/ y.kind = "nan" THEN NaN
    ELSE IF x.kind = "inf"
    THEN IF y.kind = "inf" THEN NaN
         ELSE IF y.num < 0 THEN Neg(x) ELSE x
    ELSE IF y.kind = "inf" THEN Zero
    ELSE IF y.num = 0
    THEN IF x.num = 0 THEN NaN ELSE IF x.num > 0 THEN PosInf ELSE NegInf
    ELSE Fin(x.num * y.den, x.den * y.num)

\* x < y; every comparison with NaN is false
Less(x, y) ==
    IF x.kind = "nan" \/ y.kind = "nan" THEN FALSE
    ELSE IF x.kind = "inf" THEN x.num < 0 /\ ~(y.kind = "inf" /\ y.num < 0)
    ELSE IF y.kind = "inf" THEN y.num > 0
    ELSE x.num * y.den < y.num * x.den

\* |x| < t for a z-score x = sign * sqrt(sq) and a finite threshold t >= 0
ZAbsLess(x, t) ==
    x.kind = "fin" /\ x.sq.num * t.den * t.den < t.num * t.num * x.sq.den

\* x < -t for a z-score x and a finite threshold t >= 0
ZLessNeg(x, t) ==
    \/ x.kind = "inf" /\ x.sign < 0
    \/ x.kind = "fin" /\ x.sign < 0
         /\ x.sq.num * t.den * t.den > t.num * t.num * x.sq.den

\* x > t for a z-score x and a finite threshold t >= 0
ZGreater(x, t) ==
    \/ x.kind = "inf" /\ x.sign > 0
    \/ x.kind = "fin" /\ x.sign > 0
         /\ x.sq.num * t.den * t.den > t.num * t.num * x.sq.den

ZZero == [kind |-> "fin", sign |-> 0, sq |-> Zero]

\* DivBySqrt that takes the root of the radicand cut to an integer
DivBySqrt_mut(diff, radicand) ==
    IF radicand.num < 0
    THEN [kind |-> "nan", sign |-> 0, sq |-> Zero]
    ELSE IF radicand.num < radicand.den
    THEN IF diff.num = 0
         THEN [kind |-> "nan", sign |-> 0, sq |-> Zero]
         ELSE [kind |-> "inf", sign |-> Sign(diff.num), sq |-> Zero]
    ELSE [kind |-> "fin", sign |-> Sign(diff.num),
          sq |-> Fin(diff.num * diff.num * radicand.den,
                     diff.den * diff.den * radicand.num)]

\* diff / Math.sqrt(radicand) for finite diff and radicand
DivBySqrt(diff, radicand) ==
    IF radicand.num < 0
    THEN [kind |-> "nan", sign |-> 0, sq |-> Zero]
    ELSE IF radicand.num = 0
    THEN IF diff.num = 0
         THEN [kind |-> "nan", sign |-> 0, sq |-> Zero]
         ELSE [kind |-> "inf", sign |-> Sign(diff.num), sq |-> Zero]
    ELSE [kind |-> "fin", sign |-> Sign(diff.num),
          sq |-> Fin(diff.num * diff.num * radicand.den,
                     diff.den * diff.den * radicand.num)]

ZNaN == [kind |-> "nan", sign |-> 0, sq |-> Zero]

\* Math.sqrt of a number, kept as its sign and its square
Sqrt(x) ==
    IF x.kind = "nan" THEN ZNaN
    ELSE IF x.kind = "inf"
    THEN IF x.num > 0 THEN [kind |-> "inf", sign |-> 1, sq |-> Zero] ELSE ZNaN
    ELSE IF x.num < 0 THEN ZNaN
    ELSE [kind |-> "fin", sign |-> Sign(x.num), sq |-> x]

\* r / y for a square root r and a number y
RootDiv(r, y) ==
    IF r.kind = "nan" \/ y.kind = "nan" THEN ZNaN
    ELSE IF r.kind = "inf"
    THEN IF y.kind = "inf" THEN ZNaN
         ELSE [r EXCEPT !.sign = IF y.num < 0 THEN -@ ELSE @]
    ELSE IF y.kind = "inf" THEN ZZero
    ELSE IF y.num = 0
    THEN IF r.sign = 0 THEN ZNaN
         ELSE [kind |-> "inf", sign |-> r.sign, sq |-> Zero]
    ELSE [kind |-> "fin", sign |-> r.sign * Sign(y.num),
          sq |-> Div(r.sq, Mul(y, y))]

----------------------------------------------------------------------------
(* Records *)

\* the option list handed to the evaluation
Options == <<"A", "B", "C">>

Positions == 0..(Len(Options) - 1)

IndexOf(word) == CHOOSE i \in 1..Len(Options) : Options[i] = word

\* the SelectionRun of a trial whose shuffle put `word` at index `position`
\* and whose response selected it
TrialOf(word, position) ==
    [word |-> word, position |-> position,
     originalOrder |->
        [i \in 1..Len(Options) |->
            Options[((i - 1 - position + IndexOf(word) - 1 + Len(Options))
                       % Len(Options)) + 1]]]

\* the trials the evaluation loop draws from
Trials == {TrialOf("A", 0), TrialOf("A", 1), TrialOf("B", 1)}

Attributes == {"word", "position"}

NoResult == [op |-> "none"]

\* no runSingleEvaluation and no tracked run is in progress
NoTrial ==
    /\ options = <<>>
    /\ shuffledOptions = <<>>
    /\ shuffleIndex = 0

NoRun ==
    /\ runKind = "none"
    /\ runPc = "idle"
    /\ callbacks = {}
    /\ numItems = 0
    /\ status = "none"
    /\ stored = <<>>
    /\ responses = <<>>
    /\ events = <<>>
    /\ thrown = <<>>

----------------------------------------------------------------------------
(* Frequency aggregation *)

\* Increment with the first occurrence of a key counted as 0
Increment_mut(counts, key) ==
    IF key \in DOMAIN counts
    THEN [counts EXCEPT ![key] = @ + 1]
    ELSE counts @@ (key :> 0)

\* counts[key] = (counts[key] || 0) + 1
Increment(counts, key) ==
    IF key \in DOMAIN counts
    THEN [counts EXCEPT ![key] = @ + 1]
    ELSE counts @@ (key :> 1)

EmptyMap == [k \in {} |-> 0]

RECURSIVE CountWords(_, _)
CountWords(sels, counts) ==
    IF sels = <<>> THEN counts
    ELSE CountWords(Tail(sels), Increment(counts, Head(sels).word))

calculateWordFrequency(sels) == CountWords(sels, EmptyMap)

RECURSIVE CountPositions(_, _)
CountPositions(sels, counts) ==
    IF sels = <<>> THEN counts
    ELSE CountPositions(Tail(sels), Increment(counts, Head(sels).position))

calculatePositionBias(sels) == CountPositions(sels, EmptyMap)

----------------------------------------------------------------------------
(* Runs test *)

\* MinObservations off by one
MinObservations_mut == 10 + 1

MinObservations == 10

\* MinUniqueValues that never reports identical values
MinUniqueValues_mut == 2 - 1

MinUniqueValues == 2

ZCritical == [kind |-> "fin", num |-> 49, den |-> 25]      \* 1.96

\* ZLenient more lenient still
ZLenient_mut == [kind |-> "fin", num |-> 3, den |-> 1]

ZLenient == [kind |-> "fin", num |-> 5, den |-> 2]         \* 2.5
SmallSample == 20

InsufficientText == "Insufficient data for runs test (need at least 10 observations)"
IdenticalText == "All values are identical, no randomness to test"
RandomText == "Sequence appears random (no significant clustering or alternating patterns)"
ClusteringText == "Sequence shows clustering (too few runs)"
AlternatingText == "Sequence shows excessive alternating (too many runs)"

AttributeOf(s, attribute) == IF attribute = "word" THEN s.word ELSE s.position

zThreshold(n) == IF n <= SmallSample THEN ZLenient ELSE ZCritical

\* runsInterpretation with the lenient threshold of the flag
runsInterpretation_mut(zScore) ==
    IF ZAbsLess(zScore, ZLenient) THEN RandomText
    ELSE IF ZLessNeg(zScore, ZLenient) THEN ClusteringText
    ELSE AlternatingText

runsInterpretation(zScore) ==
    IF ZAbsLess(zScore, ZCritical) THEN RandomText
    ELSE IF ZLessNeg(zScore, ZCritical) THEN ClusteringText
    ELSE AlternatingText

runsTest(sels, attribute) ==
    IF Len(sels) < MinObservations
    THEN [numberOfRuns |-> 0, expectedRuns |-> Zero, zScore |-> ZZero,
          isRandom |-> FALSE, interpretation |-> InsufficientText]
    ELSE
    LET sequence == [i \in 1..Len(sels) |-> AttributeOf(sels[i], attribute)]
        uniqueValues == {sequence[i] : i \in 1..Len(sequence)}
    IN
    IF Cardinality(uniqueValues) < MinUniqueValues
    THEN [numberOfRuns |-> 1, expectedRuns |-> Fin(1, 1), zScore |-> ZZero,
          isRandom |-> FALSE, interpretation |-> IdenticalText]
    ELSE
    LET referenceValue == sequence[1]
        binarySequence == [i \in 1..Len(sequence) |->
                             IF sequence[i] = referenceValue THEN 1 ELSE 0]
        n1 == Cardinality({i \in 1..Len(sequence) : binarySequence[i] = 1})
        n2 == Cardinality({i \in 1..Len(sequence) : binarySequence[i] = 0})
        runs == 1 + Cardinality({i \in 2..Len(sequence) :
                                   binarySequence[i] # binarySequence[i - 1]})
        expectedRuns == Fin((n1 + n2) + 2 * n1 * n2, n1 + n2)
        radicand == Div(Fin(2 * n1 * n2 * (2 * n1 * n2 - n1 - n2), 1),
                        Fin((n1 + n2) * (n1 + n2) * (n1 + n2 - 1), 1))
        diff == Fin(runs * expectedRuns.den - expectedRuns.num, expectedRuns.den)
        zScore == DivBySqrt(diff, radicand)
    IN [numberOfRuns |-> runs, expectedRuns |-> expectedRuns, zScore |-> zScore,
        isRandom |-> ZAbsLess(zScore, zThreshold(Len(sels))),
        interpretation |-> runsInterpretation(zScore)]

----------------------------------------------------------------------------
(* Chi-square and entropy of a frequency distribution *)

\* the sum of term(c) over the categories, in any order
RECURSIVE SumOver(_, _)
SumOver(categories, term) ==
    IF categories = {} THEN Zero
    ELSE LET c == CHOOSE x \in categories : TRUE
         IN Add(term[c], SumOver(categories \ {c}, term))

ChiRandomText == "Distribution appears random (chi-square < df)"
ChiMildText == "Distribution shows mild deviation from randomness"
ChiModerateText == "Distribution shows moderate deviation from randomness"
ChiStrongText == "Distribution shows strong deviation from randomness"

\* chiInterpretation whose mild band includes its upper end
chiInterpretation_mut(chiSquare, degreesOfFreedom) ==
    IF Less(chiSquare, Fin(degreesOfFreedom, 1)) THEN ChiRandomText
    ELSE IF ~Less(Fin(2 * degreesOfFreedom, 1), chiSquare) THEN ChiMildText
    ELSE IF Less(chiSquare, Fin(3 * degreesOfFreedom, 1)) THEN ChiModerateText
    ELSE ChiStrongText

chiInterpretation(chiSquare, degreesOfFreedom) ==
    IF Less(chiSquare, Fin(degreesOfFreedom, 1)) THEN ChiRandomText
    ELSE IF Less(chiSquare, Fin(2 * degreesOfFreedom, 1)) THEN ChiMildText
    ELSE IF Less(chiSquare, Fin(3 * degreesOfFreedom, 1)) THEN ChiModerateText
    ELSE ChiStrongText

\* uniformProbability over one category too many
uniformProbability_mut(k) == Div(Fin(1, 1), Fin(k + 1, 1))

\* 1 / categories.length
uniformProbability(k) == Div(Fin(1, 1), Fin(k, 1))

NoMap == [none |-> TRUE]

\* expectedProbs[category] || 1 / categories.length : a missing entry and an
\* entry of 0 both give the uniform probability
probabilityOf(expectedProbs, category, k) ==
    IF category \in DOMAIN expectedProbs /\ expectedProbs[category].num # 0
    THEN expectedProbs[category]
    ELSE uniformProbability(k)

calculateChiSquare(obs, total, expected) ==
    LET categories == DOMAIN obs
        k == Cardinality(categories)
        expectedProbs ==
            IF expected = NoMap
            THEN [c \in categories |-> uniformProbability(k)]
            ELSE expected
        term == [c \in categories |->
                   LET observedCount == Fin(obs[c], 1)
                       expectedCount ==
                           Mul(Fin(total, 1), probabilityOf(expectedProbs, c, k))
                       d == Sub(observedCount, expectedCount)
                   IN Div(Mul(d, d), expectedCount)]
        chiSquare == SumOver(categories, term)
        degreesOfFreedom == k - 1
    IN [chiSquare |-> chiSquare, degreesOfFreedom |-> degreesOfFreedom,
        interpretation |-> chiInterpretation(chiSquare, degreesOfFreedom)]

\* 1000 * log2(n), rounded, for n = 1..16
Log2Milli ==
    <<0, 1000, 1585, 2000, 2322, 2585, 2807, 3000,
      3170, 3322, 3459, 3585, 3700, 3807, 3907, 4000>>

\* Math.log2: -Infinity at 0, NaN below 0, Infinity at Infinity
Log2(x) ==
    IF x.kind = "nan" THEN NaN
    ELSE IF x.kind = "inf" THEN IF x.num > 0 THEN PosInf ELSE NaN
    ELSE IF x.num < 0 THEN NaN
    ELSE IF x.num = 0 THEN NegInf
    ELSE Fin(Log2Milli[x.num] - Log2Milli[x.den], 1000)

calculateEntropy(distribution, totalCount) ==
    LET categories == DOMAIN distribution
        term == [c \in categories |->
                   IF distribution[c] = 0 THEN Zero
                   ELSE LET probability ==
                                Div(Fin(distribution[c], 1), Fin(totalCount, 1))
                        IN Neg(Mul(probability, Log2(probability)))]
        entropy == SumOver(categories, term)
        maxEntropy == Log2(Fin(Cardinality(categories), 1))
    IN [entropy |-> entropy, normalizedEntropy |-> Div(entropy, maxEntropy)]

calculateStandardDeviation(distribution, totalCount) ==
    LET categories == DOMAIN distribution
        n == Cardinality(categories)
        mean == Div(Fin(totalCount, 1), Fin(n, 1))
        squaredDiff == [c \in categories |->
                          LET d == Sub(Fin(distribution[c], 1), mean)
                          IN Mul(d, d)]
        sumSquaredDiff == SumOver(categories, squaredDiff)
        stdDev == Sqrt(Div(sumSquaredDiff, Fin(n, 1)))
    IN [mean |-> mean, stdDev |-> stdDev,
        coefficientOfVariation |-> RootDiv(stdDev, mean)]

----------------------------------------------------------------------------
(* The composite assessment *)

uniformThreshold == [kind |-> "fin", num |-> 19, den |-> 20]      \* 0.95

\* isUniform that is satisfied by one of the two entropies
isUniform_mut(wordEntropy, positionEntropy) ==
    \/ Less(uniformThreshold, wordEntropy.normalizedEntropy)
    \/ Less(uniformThreshold, positionEntropy.normalizedEntropy)

\* wordEntropy.normalizedEntropy > 0.95 && positionEntropy.normalizedEntropy > 0.95
isUniform(wordEntropy, positionEntropy) ==
    /\ Less(uniformThreshold, wordEntropy.normalizedEntropy)
    /\ Less(uniformThreshold, positionEntropy.normalizedEntropy)

RandomUnbiasedText == "Distribution appears highly random and unbiased"
UniformPatternsText == "Distribution is uniform but shows sequential patterns"
BiasedIndependentText ==
    "Distribution shows some bias but selections are sequentially independent"
BiasedPatternsText == "Distribution is biased and shows sequential patterns"

\* overallInterpretation whose last two texts changed places
overallInterpretation_mut(isUniformDistribution, isSequentiallyIndependent) ==
    IF isUniformDistribution /\ isSequentiallyIndependent THEN RandomUnbiasedText
    ELSE IF isUniformDistribution /\ ~isSequentiallyIndependent
    THEN UniformPatternsText
    ELSE IF ~isUniformDistribution /\ isSequentiallyIndependent
    THEN BiasedPatternsText
    ELSE BiasedIndependentText

overallInterpretation(isUniformDistribution, isSequentiallyIndependent) ==
    IF isUniformDistribution /\ isSequentiallyIndependent THEN RandomUnbiasedText
    ELSE IF isUniformDistribution /\ ~isSequentiallyIndependent
    THEN UniformPatternsText
    ELSE IF ~isUniformDistribution /\ isSequentiallyIndependent
    THEN BiasedIndependentText
    ELSE BiasedPatternsText

\* evaluation is an EvaluationResult
analyzeRandomness(evaluation) ==
    LET totalRuns == evaluation.totalRuns
        wordFrequency == evaluation.selectedWords
        positionFrequency == evaluation.positionBias
        wordEntropy == calculateEntropy(wordFrequency, totalRuns)
        positionEntropy == calculateEntropy(positionFrequency, totalRuns)
        wordDistribution == calculateStandardDeviation(wordFrequency, totalRuns)
        positionDistribution ==
            calculateStandardDeviation(positionFrequency, totalRuns)
        wordChiSquare == calculateChiSquare(wordFrequency, totalRuns, NoMap)
        positionChiSquare ==
            calculateChiSquare(positionFrequency, totalRuns, NoMap)
        wordRunsTest == runsTest(evaluation.rawSelections, "word")
        positionRunsTest == runsTest(evaluation.rawSelections, "position")
        isUniformDistribution == isUniform(wordEntropy, positionEntropy)
        isSequentiallyIndependent ==
            wordRunsTest.isRandom /\ positionRunsTest.isRandom
    IN [wordFrequency |-> wordFrequency,
        positionFrequency |-> positionFrequency,
        entropy |-> [words |-> wordEntropy, positions |-> positionEntropy],
        distribution |->
            [words |-> wordDistribution, positions |-> positionDistribution],
        chiSquare |-> [words |-> wordChiSquare, positions |-> positionChiSquare],
        sequentialIndependence |->
            [words |-> wordRunsTest, positions |-> positionRunsTest],
        overallAssessment |->
            [isUniformDistribution |-> isUniformDistribution,
             isSequentiallyIndependent |-> isSequentiallyIndependent,
             interpretation |->
                 overallInterpretation(isUniformDistribution,
                                       isSequentiallyIndependent)]]

----------------------------------------------------------------------------
(* Position bias *)

AbsNum(x) == [x EXCEPT !.num = Abs(@)]

\* MinOne that returns its bound for every number
MinOne_mut(x) == IF x.kind = "nan" THEN NaN ELSE Fin(1, 1)

\* Math.min(1, x): NaN when x is NaN
MinOne(x) ==
    IF x.kind = "nan" THEN NaN
    ELSE IF Less(x, Fin(1, 1)) THEN x ELSE Fin(1, 1)

\* x.toFixed(1): the number of tenths nearest to x, halves away from zero
ToFixed1(x) ==
    IF x.kind = "nan" THEN [text |-> "NaN", tenths |-> 0]
    ELSE IF x.kind = "inf"
    THEN [text |-> IF x.num > 0 THEN "Infinity" ELSE "-Infinity", tenths |-> 0]
    ELSE [text |-> "digits",
          tenths |-> Sign(x.num) * ((20 * Abs(x.num) + x.den) \div (2 * x.den))]

Percent(x) == Mul(x, Fin(100, 1))

biasThreshold == [kind |-> "fin", num |-> 3, den |-> 20]           \* 0.15

\* strongBiasThreshold set too high
strongBiasThreshold_mut == [kind |-> "fin", num |-> 1, den |-> 2]

strongBiasThreshold == [kind |-> "fin", num |-> 3, den |-> 10]     \* 0.30

\* a value of type number | null: null is the empty sequence, a number x is <<x>>
Null == <<>>
Some(x) == <<x>>

NoBiasText == "No significant position bias detected."
StrongBiasText == "Strong position bias detected."
ModerateBiasText == "Moderate position bias detected."

\* the positions below positionCount, each with 0 unless counted
ZeroFilled(counts, positionCount) ==
    [i \in DOMAIN counts \cup 0..(positionCount - 1) |->
        IF i \in DOMAIN counts THEN counts[i] ELSE 0]

\* (observed - expectedFrequency) / expectedFrequency
deviationOf(observedCount, expectedFrequency) ==
    Div(Sub(Fin(observedCount, 1), expectedFrequency), expectedFrequency)

\* updateMax that also replaces the maximum on a tie
updateMax_mut(max, i, deviation) ==
    IF ~Less(AbsNum(deviation), AbsNum(max.maxDeviation))
    THEN [maxDeviation |-> deviation, maxDeviationPosition |-> i]
    ELSE max

\* if (Math.abs(deviation[i]) > Math.abs(maxDeviation)) { ... }
updateMax(max, i, deviation) ==
    IF Less(AbsNum(max.maxDeviation), AbsNum(deviation))
    THEN [maxDeviation |-> deviation, maxDeviationPosition |-> i]
    ELSE max

\* the loop over i = from .. positionCount - 1
RECURSIVE MaxLoop(_, _, _, _)
MaxLoop(i, positionCount, deviation, max) ==
    IF i >= positionCount THEN max
    ELSE MaxLoop(i + 1, positionCount, deviation,
                 updateMax(max, i, deviation[i]))

RECURSIVE TotalLoop(_, _, _, _)
TotalLoop(i, positionCount, deviation, total) ==
    IF i >= positionCount THEN total
    ELSE TotalLoop(i + 1, positionCount, deviation,
                   Add(total, AbsNum(deviation[i])))

detectPositionBias(sels, positionCount) ==
    LET positionFrequency == ZeroFilled(calculatePositionBias(sels), positionCount)
        expectedFrequency == Div(Fin(Len(sels), 1), Fin(positionCount, 1))
        deviation == [i \in 0..(positionCount - 1) |->
                        deviationOf(positionFrequency[i], expectedFrequency)]
        totalDeviation == TotalLoop(0, positionCount, deviation, Zero)
        max == MaxLoop(0, positionCount, deviation,
                       [maxDeviation |-> Zero, maxDeviationPosition |-> 0])
        maxDeviation == max.maxDeviation
        biasIndex == MinOne(Div(totalDeviation, Fin(2 * (positionCount - 1), 1)))
        hasBias == \/ Less(biasThreshold, biasIndex)
                   \/ Less(biasThreshold, AbsNum(maxDeviation))
        biasDirection == IF Less(Zero, maxDeviation) THEN "preference"
                         ELSE IF Less(maxDeviation, Zero) THEN "avoidance"
                         ELSE "none"
        detail == [position |-> max.maxDeviationPosition,
                   direction |-> IF biasDirection = "preference"
                                 THEN "preference" ELSE "avoidance",
                   percent |-> ToFixed1(AbsNum(Percent(maxDeviation)))]
        interpretation ==
            IF ~hasBias THEN [wording |-> NoBiasText]
            ELSE IF Less(strongBiasThreshold, biasIndex)
            THEN [wording |-> StrongBiasText, detail |-> detail]
            ELSE [wording |-> ModerateBiasText, detail |-> detail]
    IN [positionFrequency |-> positionFrequency,
        biasMetrics |->
           [deviation |-> deviation,
            maxDeviation |-> maxDeviation,
            maxDeviationPosition |-> max.maxDeviationPosition,
            averageDeviation |-> Div(totalDeviation, Fin(positionCount, 1)),
            biasIndex |-> biasIndex],
        biasAssessment |->
           [hasBias |-> hasBias,
            strongestBiasPosition |->
                IF hasBias THEN Some(max.maxDeviationPosition) ELSE Null,
            biasDirection |-> biasDirection,
            interpretation |-> interpretation]]

NoEdgeBiasText == "No significant edge position bias detected."
BothEdgesText == "Edge position bias detected."
FirstEdgeText == "First position bias detected"
LastEdgeText == "Last position bias detected"

\* lastPosition one past the last slot
lastPositionOf_mut(positionCount) == positionCount

\* const lastPosition = positionCount - 1
lastPositionOf(positionCount) == positionCount - 1

\* positionFrequency[position] || 0
CountAt(counts, position) ==
    IF position \in DOMAIN counts THEN counts[position] ELSE 0

EdgeDirection(bias) == IF Less(Zero, bias) THEN "preference" ELSE "avoidance"

detectEdgePositionBias(sels, positionCount) ==
    LET positionFrequency == calculatePositionBias(sels)
        expectedFrequency == Div(Fin(Len(sels), 1), Fin(positionCount, 1))
        firstPositionFrequency == CountAt(positionFrequency, 0)
        lastPositionFrequency ==
            CountAt(positionFrequency, lastPositionOf(positionCount))
        firstPositionBias == deviationOf(firstPositionFrequency, expectedFrequency)
        lastPositionBias == deviationOf(lastPositionFrequency, expectedFrequency)
        hasFirstPositionBias == Less(biasThreshold, AbsNum(firstPositionBias))
        hasLastPositionBias == Less(biasThreshold, AbsNum(lastPositionBias))
        hasEdgeBias == hasFirstPositionBias \/ hasLastPositionBias
        interpretation ==
            IF ~hasEdgeBias THEN [wording |-> NoEdgeBiasText]
            ELSE IF hasFirstPositionBias /\ hasLastPositionBias
            THEN [wording |-> BothEdgesText,
                  first |-> EdgeDirection(firstPositionBias),
                  firstPercent |-> ToFixed1(Percent(firstPositionBias)),
                  last |-> EdgeDirection(lastPositionBias),
                  lastPercent |-> ToFixed1(Percent(lastPositionBias))]
            ELSE IF hasFirstPositionBias
            THEN [wording |-> FirstEdgeText,
                  direction |-> EdgeDirection(firstPositionBias),
                  percent |-> ToFixed1(AbsNum(Percent(firstPositionBias)))]
            ELSE [wording |-> LastEdgeText,
                  direction |-> EdgeDirection(lastPositionBias),
                  percent |-> ToFixed1(AbsNum(Percent(lastPositionBias)))]
    IN [firstPositionFrequency |-> firstPositionFrequency,
        lastPositionFrequency |-> lastPositionFrequency,
        firstPositionBias |-> firstPositionBias,
        lastPositionBias |-> lastPositionBias,
        hasEdgeBias |-> hasEdgeBias,
        interpretation |-> interpretation]

----------------------------------------------------------------------------
(* Word-position correlation *)

Range(seq) == {seq[i] : i \in 1..Len(seq)}

\* the distinct values of a sequence in the order of their first occurrence,
\* the iteration order of a Set filled by add
RECURSIVE AddAll(_, _)
AddAll(values, set) ==
    IF values = <<>> THEN set
    ELSE AddAll(Tail(values),
                IF Head(values) \in Range(set) THEN set
                ELSE Append(set, Head(values)))

\* correlationMatrix[selection.word][selection.position]++ for every record
RECURSIVE FillMatrix(_, _)
FillMatrix(sels, matrix) ==
    IF sels = <<>> THEN matrix
    ELSE FillMatrix(Tail(sels),
                    [matrix EXCEPT ![Head(sels).word][Head(sels).position] = @ + 1])

\* significanceThreshold that a deviation of -1 does not exceed
significanceThreshold_mut == [kind |-> "fin", num |-> 1, den |-> 1]

significanceThreshold == [kind |-> "fin", num |-> 3, den |-> 10]   \* 0.3

\* isSignificant that also takes small positive deviations
isSignificant_mut(deviation) == Less(Fin(1, 10), AbsNum(deviation))

\* Math.abs(deviation) > 0.3
isSignificant(deviation) == Less(significanceThreshold, AbsNum(deviation))

\* sortCompare in ascending order
sortCompare_mut(a, b) == Sub(AbsNum(a.deviation), AbsNum(b.deviation))

\* (a, b) => Math.abs(b.deviation) - Math.abs(a.deviation)
sortCompare(a, b) == Sub(AbsNum(b.deviation), AbsNum(a.deviation))

\* x put before the first element that the comparator orders after it
InsertSorted(sorted, x) ==
    LET later == {i \in 1..Len(sorted) : Less(Zero, sortCompare(sorted[i], x))}
        at == IF later = {} THEN Len(sorted) + 1
              ELSE CHOOSE i \in later : \A j \in later : i <= j
    IN SubSeq(sorted, 1, at - 1) \o <<x>> \o SubSeq(sorted, at, Len(sorted))

\* Array.prototype.sort, a stable sort
RECURSIVE SortBy(_, _)
SortBy(entries, sorted) ==
    IF entries = <<>> THEN sorted
    ELSE SortBy(Tail(entries), InsertSorted(sorted, Head(entries)))

RECURSIVE Significant(_)
Significant(cells) ==
    IF cells = <<>> THEN <<>>
    ELSE IF isSignificant(Head(cells).deviation)
    THEN <<Head(cells)>> \o Significant(Tail(cells))
    ELSE Significant(Tail(cells))

NoCorrelationText == "No significant word-position correlations detected."
OneCorrelationText == "Word-position correlation detected"
ManyCorrelationsText == "Multiple word-position correlations detected."

detectWordPositionCorrelation(sels) ==
    LET words == AddAll([i \in 1..Len(sels) |-> sels[i].word], <<>>)
        positions == AddAll([i \in 1..Len(sels) |-> sels[i].position], <<>>)
        correlationMatrix ==
            FillMatrix(sels, [w \in Range(words) |-> [q \in Range(positions) |-> 0]])
        wordFrequencies ==
            [w \in Range(words) |->
                Cardinality({i \in 1..Len(sels) : sels[i].word = w})]
        positionFrequencies ==
            [q \in Range(positions) |->
                Cardinality({i \in 1..Len(sels) : sels[i].position = q})]
        totalSelections == Len(sels)
        cellOf(w, q) ==
            LET frequency == correlationMatrix[w][q]
                expected == Div(Fin(wordFrequencies[w] * positionFrequencies[q], 1),
                                Fin(totalSelections, 1))
            IN [word |-> w, position |-> q, frequency |-> frequency,
                expected |-> expected,
                deviation |-> Div(Sub(Fin(frequency, 1), expected), expected)]
        cells == [k \in 1..(Len(words) * Len(positions)) |->
                    cellOf(words[((k - 1) \div Len(positions)) + 1],
                           positions[((k - 1) % Len(positions)) + 1])]
        significantCorrelations == SortBy(Significant(cells), <<>>)
        hasSignificantCorrelation == Len(significantCorrelations) > 0
        interpretation ==
            IF ~hasSignificantCorrelation THEN [wording |-> NoCorrelationText]
            ELSE LET corr == significantCorrelations[1]
                 IN IF Len(significantCorrelations) = 1
                    THEN [wording |-> OneCorrelationText, word |-> corr.word,
                          direction |-> IF Less(Zero, corr.deviation)
                                        THEN "appears more frequently"
                                        ELSE "appears less frequently",
                          position |-> corr.position,
                          percent |-> ToFixed1(Percent(corr.deviation))]
                    ELSE [wording |-> ManyCorrelationsText, word |-> corr.word,
                          position |-> corr.position,
                          percent |-> ToFixed1(Percent(corr.deviation))]
    IN [correlationMatrix |-> correlationMatrix,
        significantCorrelations |-> significantCorrelations,
        hasSignificantCorrelation |-> hasSignificantCorrelation,
        interpretation |-> interpretation]

----------------------------------------------------------------------------
(* The evaluation loop and the analysis calls *)

Init ==
    /\ selections = <<>>
    /\ pc = "running"
    /\ selectedWords = EmptyMap
    /\ positionBias = EmptyMap
    /\ observed = EmptyMap
    /\ totalObservations = 0
    /\ expectedProbability = NoMap
    /\ result = NoResult
    /\ NoTrial
    /\ NoRun

\* one iteration of the loop of evaluateRandomWordSelection
RunSingleEvaluation ==
    /\ pc = "running"
    /\ Len(selections) < MaxRuns
    /\ \E trial \in Trials : selections' = Append(selections, trial)
    /\ UNCHANGED <<pc, selectedWords, positionBias, observed,
                   totalObservations, expectedProbability, result,
                   trialVars, runVars>>

\* the loop ends after numRuns iterations and the statistics are computed
FinishEvaluation ==
    /\ pc = "running"
    /\ pc' = "done"
    /\ selectedWords' = calculateWordFrequency(selections)
    /\ positionBias' = calculatePositionBias(selections)
    /\ UNCHANGED <<selections, observed, totalObservations,
                   expectedProbability, result,
                   trialVars, runVars>>

RunsTestCall ==
    /\ pc = "done"
    /\ result.op = "none"
    /\ \E attribute \in Attributes :
         result' = [op |-> "runsTest", attribute |-> attribute,
                    outcome |-> "returned",
                    value |-> runsTest(selections, attribute)]
    /\ UNCHANGED <<selections, pc, selectedWords, positionBias, observed,
                   totalObservations, expectedProbability,
                   trialVars, runVars>>

\* runTrackedEvaluation returned: its results carry the records and two
\* empty frequency maps, left for the caller to calculate
FinishTrackedEvaluation ==
    /\ pc = "running"
    /\ pc' = "tracked"
    /\ selectedWords' = EmptyMap
    /\ positionBias' = EmptyMap
    /\ UNCHANGED <<selections, observed, totalObservations,
                   expectedProbability, result,
                   trialVars, runVars>>

\* the EvaluationResult that evaluateRandomWordSelection, or
\* runTrackedEvaluation, returns
EvaluationResultOf ==
    [selectedWords |-> selectedWords, positionBias |-> positionBias,
     totalRuns |-> Len(selections), rawSelections |-> selections]

AnalyzeRandomnessCall ==
    /\ pc \in {"done", "tracked"}
    /\ result.op = "none"
    /\ result' = [op |-> "analyzeRandomness", outcome |-> "returned",
                  value |-> analyzeRandomness(EvaluationResultOf)]
    /\ UNCHANGED <<selections, pc, selectedWords, positionBias, observed,
                   totalObservations, expectedProbability,
                   trialVars, runVars>>

Next ==
    \/ RunSingleEvaluation
    \/ FinishEvaluation
    \/ FinishTrackedEvaluation
    \/ RunsTestCall
    \/ AnalyzeRandomnessCall

Spec == Init /\ [][Next]_vars

----------------------------------------------------------------------------
(* Finished evaluations whose tested attribute alternates or is clustered *)

\* the record whose tested attribute is `value` and whose other attribute is
\* `other`
PatternTrial(attribute, value, other) ==
    IF attribute = "word" THEN TrialOf(value, other) ELSE TrialOf(other, value)

ValuesOf(attribute) ==
    IF attribute = "word" THEN {Options[i] : i \in 1..Len(Options)} ELSE Positions

\* A,B,A,B,... of 2m records
Alternating(attribute, a, b, other, m) ==
    [i \in 1..(2 * m) |->
        PatternTrial(attribute, IF i % 2 = 1 THEN a ELSE b, other)]

\* m records of A followed by m records of B
Clustered(attribute, a, b, other, m) ==
    [i \in 1..(2 * m) |->
        PatternTrial(attribute, IF i <= m THEN a ELSE b, other)]

InitPattern ==
    /\ \E attribute \in Attributes, m \in 5..MaxHalf :
       \E a \in ValuesOf(attribute), b \in ValuesOf(attribute) :
       \E other \in ValuesOf(IF attribute = "word" THEN "position" ELSE "word") :
          /\ a # b
          /\ selections \in {Alternating(attribute, a, b, other, m),
                             Clustered(attribute, a, b, other, m)}
    /\ pc = "done"
    /\ selectedWords = calculateWordFrequency(selections)
    /\ positionBias = calculatePositionBias(selections)
    /\ observed = EmptyMap
    /\ totalObservations = 0
    /\ expectedProbability = NoMap
    /\ result = NoResult
    /\ NoTrial
    /\ NoRun

NextPattern == RunsTestCall

SpecPattern == InitPattern /\ [][NextPattern]_vars

----------------------------------------------------------------------------
(* Short evaluations over every slot, and the position-bias calls *)

MaxBiasRuns == 5         \* longest record sequence handed to the detectors
MaxPositionCount == 3    \* largest positionCount handed to the detectors

\* the trials the short evaluations draw from
BiasTrials == {TrialOf(w, q) : w \in {"A", "B"}, q \in Positions}

RunBiasEvaluation ==
    /\ pc = "running"
    /\ Len(selections) < MaxBiasRuns
    /\ \E trial \in BiasTrials : selections' = Append(selections, trial)
    /\ UNCHANGED <<pc, selectedWords, positionBias, observed,
                   totalObservations, expectedProbability, result,
                   trialVars, runVars>>

DetectPositionBiasCall ==
    /\ pc = "done"
    /\ result.op = "none"
    /\ \E positionCount \in 1..MaxPositionCount :
         result' = [op |-> "detectPositionBias", positionCount |-> positionCount,
                    outcome |-> "returned",
                    value |-> detectPositionBias(selections, positionCount)]
    /\ UNCHANGED <<selections, pc, selectedWords, positionBias, observed,
                   totalObservations, expectedProbability,
                   trialVars, runVars>>

DetectEdgePositionBiasCall ==
    /\ pc = "done"
    /\ result.op = "none"
    /\ \E positionCount \in 1..MaxPositionCount :
         result' = [op |-> "detectEdgePositionBias",
                    positionCount |-> positionCount,
                    outcome |-> "returned",
                    value |-> detectEdgePositionBias(selections, positionCount)]
    /\ UNCHANGED <<selections, pc, selectedWords, positionBias, observed,
                   totalObservations, expectedProbability,
                   trialVars, runVars>>

DetectWordPositionCorrelationCall ==
    /\ pc = "done"
    /\ result.op = "none"
    /\ result' = [op |-> "detectWordPositionCorrelation",
                  outcome |-> "returned",
                  value |-> detectWordPositionCorrelation(selections)]
    /\ UNCHANGED <<selections, pc, selectedWords, positionBias, observed,
                   totalObservations, expectedProbability,
                   trialVars, runVars>>

NextBias ==
    \/ RunBiasEvaluation
    \/ FinishEvaluation
    \/ DetectPositionBiasCall
    \/ DetectEdgePositionBiasCall
    \/ DetectWordPositionCorrelationCall

SpecBias == Init /\ [][NextBias]_vars

----------------------------------------------------------------------------
(* Distribution functions called on arbitrary distributions *)

Categories == {"A", "B", "C"}

MaxCount == 3        \* largest count of a category
MaxTotal == 4        \* largest total handed to a distribution function
ProbDen == 2         \* expected probabilities are multiples of 1/ProbDen

Distributions == UNION {[S -> 0..MaxCount] : S \in SUBSET Categories}

ProbabilityMaps ==
    {NoMap} \cup
    UNION {[S -> {Fin(n, ProbDen) : n \in 0..ProbDen}] : S \in SUBSET Categories}

InitDist ==
    /\ selections = <<>>
    /\ pc = "done"
    /\ selectedWords = EmptyMap
    /\ positionBias = EmptyMap
    /\ observed \in Distributions
    /\ totalObservations \in 0..MaxTotal
    /\ expectedProbability \in ProbabilityMaps
    /\ result = NoResult
    /\ NoTrial
    /\ NoRun

CalculateChiSquareCall ==
    /\ result.op = "none"
    /\ result' = [op |-> "calculateChiSquare", outcome |-> "returned",
                  value |-> calculateChiSquare(observed, totalObservations,
                                               expectedProbability)]
    /\ UNCHANGED <<selections, pc, selectedWords, positionBias, observed,
                   totalObservations, expectedProbability,
                   trialVars, runVars>>

CalculateEntropyCall ==
    /\ result.op = "none"
    /\ result' = [op |-> "calculateEntropy", outcome |-> "returned",
                  value |-> calculateEntropy(observed, totalObservations)]
    /\ UNCHANGED <<selections, pc, selectedWords, positionBias, observed,
                   totalObservations, expectedProbability,
                   trialVars, runVars>>

CalculateStandardDeviationCall ==
    /\ result.op = "none"
    /\ result' = [op |-> "calculateStandardDeviation", outcome |-> "returned",
                  value |-> calculateStandardDeviation(observed,
                                                       totalObservations)]
    /\ UNCHANGED <<selections, pc, selectedWords, positionBias, observed,
                   totalObservations, expectedProbability,
                   trialVars, runVars>>

NextDist ==
    \/ CalculateChiSquareCall
    \/ CalculateEntropyCall
    \/ CalculateStandardDeviationCall

SpecDist == InitDist /\ [][NextDist]_vars

----------------------------------------------------------------------------
(* One runSingleEvaluation: the shuffle, the model's response, the record *)

MaxOptions == 3          \* longest option list handed to runSingleEvaluation

\* the option lists, duplicates and the empty list included
OptionLists ==
    UNION {[1..n -> Range(Options)] : n \in 0..MaxOptions}

\* the words a model client may answer with: "D" is never an option
SelectedWords == Range(Options) \cup {"D"}

\* Array.prototype.indexOf: the first index holding x, from 0, or -1
indexOf(array, x) ==
    IF \E k \in 1..Len(array) : array[k] = x
    THEN (CHOOSE k \in 1..Len(array) :
              array[k] = x /\ \A l \in 1..(k - 1) : array[l] # x) - 1
    ELSE -1

\* [result[i], result[j]] = [result[j], result[i]], indices from 0
Swap(array, i, j) ==
    [array EXCEPT ![i + 1] = array[j + 1], ![j + 1] = array[i + 1]]

InitTrial ==
    /\ selections = <<>>
    /\ pc = "done"
    /\ selectedWords = EmptyMap
    /\ positionBias = EmptyMap
    /\ observed = EmptyMap
    /\ totalObservations = 0
    /\ expectedProbability = NoMap
    /\ result = NoResult
    /\ options \in OptionLists
    /\ shuffledOptions = options
    /\ shuffleIndex = Len(options) - 1
    /\ NoRun

\* one iteration of the loop of shuffleArray, j = floor(random * (i + 1))
ShuffleStep ==
    /\ shuffleIndex > 0
    /\ \E j \in 0..shuffleIndex :
         shuffledOptions' = Swap(shuffledOptions, shuffleIndex, j)
    /\ shuffleIndex' = shuffleIndex - 1
    /\ UNCHANGED <<selections, pc, selectedWords, positionBias, observed,
                   totalObservations, expectedProbability, result, options,
                   runVars>>

\* the rest of runSingleEvaluation: the schema of the shuffled options is
\* made, the model answers, and the record is returned
GenerateObject ==
    /\ shuffleIndex <= 0
    /\ result.op = "none"
    /\ IF shuffledOptions = <<>>
       THEN result' = [op |-> "runSingleEvaluation", outcome |-> "threw"]
       ELSE \/ result' = [op |-> "runSingleEvaluation", outcome |-> "threw"]
            \/ \E selectedWord \in SelectedWords :
                 result' = [op |-> "runSingleEvaluation",
                            outcome |-> "returned",
                            value |->
                               [word |-> selectedWord,
                                position |-> indexOf(shuffledOptions,
                                                     selectedWord),
                                originalOrder |-> shuffledOptions]]
    /\ UNCHANGED <<selections, pc, selectedWords, positionBias, observed,
                   totalObservations, expectedProbability, trialVars,
                   runVars>>

NextTrial == ShuffleStep \/ GenerateObject

SpecTrial == InitTrial /\ [][NextTrial]_vars

----------------------------------------------------------------------------
(* Tracked runs: EvaluationService.runEvaluation and runTrackedEvaluation *)

MaxItems == 2            \* most items a generator yields, most numRuns

CallbackNames == {"onStart", "onResponse", "onComplete", "onError"}

\* the error that is propagating: the one thrown last
Last(errors) == errors[Len(errors)]

Event(kind, index, detail) ==
    [kind |-> kind, index |-> index, detail |-> detail]

\* ItemOf that gives every item the prompt index 0
ItemOf_mut(promptIndex) == [promptIndex |-> 0, error |-> "none"]

\* the model response saved for the item yielded with promptIndex
ItemOf(promptIndex) == [promptIndex |-> promptIndex, error |-> "none"]

\* the error response that runAndTrackSingleEvaluation records
ErrorItemOf(promptIndex, error) ==
    [promptIndex |-> promptIndex, error |-> error]

\* a call of repository.updateEvaluationRunStatus that succeeds
StatusSet(newStatus) ==
    /\ status' = newStatus
    /\ events' = Append(events, Event("status", 0, newStatus))

\* control enters the catch block with the error of the step that threw
Caught(error) ==
    /\ runPc' = "catch"
    /\ thrown' = Append(thrown, error)

InitRun ==
    /\ selections = <<>>
    /\ pc = "done"
    /\ selectedWords = EmptyMap
    /\ positionBias = EmptyMap
    /\ observed = EmptyMap
    /\ totalObservations = 0
    /\ expectedProbability = NoMap
    /\ result = NoResult
    /\ NoTrial
    /\ runKind \in {"runEvaluation", "runTrackedEvaluation"}
    /\ runPc = "idle"
    /\ callbacks \in IF runKind = "runEvaluation"
                     THEN SUBSET CallbackNames ELSE {{}}
    /\ numItems \in 0..MaxItems
    /\ status = "none"
    /\ stored = <<>>
    /\ responses = <<>>
    /\ events = <<>>
    /\ thrown = <<>>

analysisVars == <<selections, pc, selectedWords, positionBias, observed,
                  totalObservations, expectedProbability>>

\* evaluationRun = await this.repository.createEvaluationRun(...)
CreateEvaluationRun ==
    /\ runKind = "runEvaluation" /\ runPc = "idle"
    /\ \/ /\ StatusSet("pending")
          /\ runPc' = "created"
          /\ UNCHANGED thrown
       \/ /\ Caught("createEvaluationRun")
          /\ UNCHANGED <<status, events>>
    /\ UNCHANGED <<analysisVars, result, trialVars, runKind, callbacks,
                   numItems, stored, responses>>

\* if (options.onStart) await options.onStart(evaluationRun)
OnStart ==
    /\ runKind = "runEvaluation" /\ runPc = "created"
    /\ IF "onStart" \in callbacks
       THEN /\ events' = Append(events, Event("onStart", 0, "none"))
            /\ \/ runPc' = "started" /\ UNCHANGED thrown
               \/ Caught("onStart")
       ELSE /\ runPc' = "started"
            /\ UNCHANGED <<events, thrown>>
    /\ UNCHANGED <<analysisVars, result, trialVars, runKind, callbacks,
                   numItems, status, stored, responses>>

\* updateEvaluationRunStatus(runId, RUNNING)
UpdateRunning ==
    /\ runKind = "runEvaluation" /\ runPc = "started"
    /\ \/ /\ StatusSet("running")
          /\ runPc' = "generating"
          /\ UNCHANGED thrown
       \/ /\ Caught("updateRunning")
          /\ UNCHANGED <<status, events>>
    /\ UNCHANGED <<analysisVars, result, trialVars, runKind, callbacks,
                   numItems, stored, responses>>

\* the for await loop asks the generator for its next item
GeneratorNext ==
    /\ runKind = "runEvaluation" /\ runPc = "generating"
    /\ \/ /\ runPc' = IF Len(responses) < numItems THEN "yielded"
                      ELSE "generated"
          /\ UNCHANGED thrown
       \/ Caught("generator")
    /\ UNCHANGED <<analysisVars, result, trialVars, runKind, callbacks,
                   numItems, status, stored, responses, events>>

\* saveModelResponse of the yielded item, then responses.push
SaveModelResponse ==
    /\ runKind = "runEvaluation" /\ runPc = "yielded"
    /\ \/ /\ stored' = Append(stored, ItemOf(Len(responses)))
          /\ responses' = Append(responses, ItemOf(Len(responses)))
          /\ events' = Append(events, Event("save", Len(responses), "none"))
          /\ runPc' = "saved"
          /\ UNCHANGED thrown
       \/ /\ Caught("saveModelResponse")
          /\ UNCHANGED <<stored, responses, events>>
    /\ UNCHANGED <<analysisVars, result, trialVars, runKind, callbacks,
                   numItems, status>>

\* if (options.onResponse) await options.onResponse(modelResponse, ...)
OnResponse ==
    /\ runKind = "runEvaluation" /\ runPc = "saved"
    /\ IF "onResponse" \in callbacks
       THEN /\ events' = Append(events,
                           Event("onResponse", Len(responses) - 1, "none"))
            /\ \/ runPc' = "generating" /\ UNCHANGED thrown
               \/ Caught("onResponse")
       ELSE /\ runPc' = "generating"
            /\ UNCHANGED <<events, thrown>>
    /\ UNCHANGED <<analysisVars, result, trialVars, runKind, callbacks,
                   numItems, status, stored, responses>>

\* updateEvaluationRunStatus(runId, COMPLETED)
UpdateCompleted ==
    /\ runKind = "runEvaluation" /\ runPc = "generated"
    /\ \/ /\ StatusSet("completed")
          /\ runPc' = "completed"
          /\ UNCHANGED thrown
       \/ /\ Caught("updateCompleted")
          /\ UNCHANGED <<status, events>>
    /\ UNCHANGED <<analysisVars, result, trialVars, runKind, callbacks,
                   numItems, stored, responses>>

\* if (options.onComplete) await options.onComplete(...); return
OnComplete ==
    /\ runKind = "runEvaluation" /\ runPc = "completed"
    /\ LET returned ==
               /\ runPc' = "returned"
               /\ result' = [op |-> "runEvaluation", outcome |-> "returned",
                             value |-> [status |-> status,
                                        responses |-> responses]]
               /\ UNCHANGED thrown
       IN IF "onComplete" \in callbacks
          THEN /\ events' = Append(events, Event("onComplete", 0, "none"))
               /\ \/ returned
                  \/ Caught("onComplete") /\ UNCHANGED result
          ELSE returned /\ UNCHANGED events
    /\ UNCHANGED <<analysisVars, trialVars, runKind, callbacks,
                   numItems, status, stored, responses>>

\* catch: if (evaluationRun) updateEvaluationRunStatus(evalId, FAILED)
UpdateFailed ==
    /\ runKind = "runEvaluation" /\ runPc = "catch"
    /\ IF status # "none"
       THEN \/ /\ StatusSet("failed")
               /\ runPc' = "failedSet"
               /\ UNCHANGED <<thrown, result>>
            \/ /\ runPc' = "threw"
               /\ thrown' = Append(thrown, "updateFailed")
               /\ result' = [op |-> "runEvaluation", outcome |-> "threw",
                             error |-> "updateFailed"]
               /\ UNCHANGED <<status, events>>
       ELSE /\ runPc' = "failedSet"
            /\ UNCHANGED <<status, events, thrown, result>>
    /\ UNCHANGED <<analysisVars, trialVars, runKind, callbacks,
                   numItems, stored, responses>>

\* catch: if (options.onError) await options.onError(error, ...); throw error
OnError ==
    /\ runKind = "runEvaluation" /\ runPc = "failedSet"
    /\ runPc' = "threw"
    /\ IF "onError" \in callbacks
       THEN /\ events' = Append(events, Event("onError", 0, Last(thrown)))
            /\ \/ UNCHANGED thrown
               \/ thrown' = Append(thrown, "onError")
       ELSE UNCHANGED <<events, thrown>>
    /\ result' = [op |-> "runEvaluation", outcome |-> "threw",
                  error |-> Last(thrown')]
    /\ UNCHANGED <<analysisVars, trialVars, runKind, callbacks,
                   numItems, status, stored, responses>>

\* runTrackedEvaluation: ResponseTracker.createEvaluationRun, outside the try
TrackedCreate ==
    /\ runKind = "runTrackedEvaluation" /\ runPc = "idle"
    /\ \/ /\ StatusSet("pending")
          /\ runPc' = "created"
          /\ UNCHANGED <<thrown, result>>
       \/ /\ runPc' = "threw"
          /\ thrown' = Append(thrown, "createEvaluationRun")
          /\ result' = [op |-> "runTrackedEvaluation", outcome |-> "threw",
                        error |-> "createEvaluationRun"]
          /\ UNCHANGED <<status, events>>
    /\ UNCHANGED <<analysisVars, trialVars, runKind, callbacks,
                   numItems, stored, responses>>

\* ResponseTracker.updateEvaluationRunStatus(id, RUNNING), outside the try
TrackedUpdateRunning ==
    /\ runKind = "runTrackedEvaluation" /\ runPc = "created"
    /\ \/ /\ StatusSet("running")
          /\ runPc' = "generating"
          /\ UNCHANGED <<thrown, result>>
       \/ /\ runPc' = "threw"
          /\ thrown' = Append(thrown, "updateRunning")
          /\ result' = [op |-> "runTrackedEvaluation", outcome |-> "threw",
                        error |-> "updateRunning"]
          /\ UNCHANGED <<status, events>>
    /\ UNCHANGED <<analysisVars, trialVars, runKind, callbacks,
                   numItems, stored, responses>>

\* the loop test i < numRuns, then runSingleEvaluation inside
\* runAndTrackSingleEvaluation
TrackedSingleEvaluation ==
    /\ runKind = "runTrackedEvaluation" /\ runPc = "generating"
    /\ IF Len(responses) < numItems
       THEN \/ runPc' = "yielded" /\ UNCHANGED thrown
            \/ /\ runPc' = "evaluationFailed"
               /\ thrown' = Append(thrown, "runSingleEvaluation")
       ELSE runPc' = "generated" /\ UNCHANGED thrown
    /\ UNCHANGED <<analysisVars, result, trialVars, runKind, callbacks,
                   numItems, status, stored, responses, events>>

\* ResponseTracker.recordResponse of the selection, then selections.push
TrackedRecordResponse ==
    /\ runKind = "runTrackedEvaluation" /\ runPc = "yielded"
    /\ \/ /\ stored' = Append(stored, ItemOf(Len(responses)))
          /\ responses' = Append(responses, ItemOf(Len(responses)))
          /\ events' = Append(events, Event("save", Len(responses), "none"))
          /\ runPc' = "generating"
          /\ UNCHANGED thrown
       \/ /\ runPc' = "evaluationFailed"
          /\ thrown' = Append(thrown, "recordResponse")
          /\ UNCHANGED <<stored, responses, events>>
    /\ UNCHANGED <<analysisVars, result, trialVars, runKind, callbacks,
                   numItems, status>>

\* the catch of runAndTrackSingleEvaluation: the error is recorded as a
\* response and thrown again
TrackedRecordError ==
    /\ runKind = "runTrackedEvaluation" /\ runPc = "evaluationFailed"
    /\ runPc' = "catch"
    /\ \/ /\ stored' = Append(stored,
                                ErrorItemOf(Len(responses), Last(thrown)))
          /\ events' = Append(events,
                              Event("save", Len(responses), Last(thrown)))
          /\ UNCHANGED thrown
       \/ /\ thrown' = Append(thrown, "recordError")
          /\ UNCHANGED <<stored, events>>
    /\ UNCHANGED <<analysisVars, result, trialVars, runKind, callbacks,
                   numItems, status, responses>>

\* ResponseTracker.updateEvaluationRunStatus(id, COMPLETED); return
TrackedUpdateCompleted ==
    /\ runKind = "runTrackedEvaluation" /\ runPc = "generated"
    /\ \/ /\ StatusSet("completed")
          /\ runPc' = "returned"
          /\ result' = [op |-> "runTrackedEvaluation",
                        outcome |-> "returned",
                        value |-> [status |-> "completed",
                                   responses |-> responses]]
          /\ UNCHANGED thrown
       \/ /\ Caught("updateCompleted")
          /\ UNCHANGED <<status, events, result>>
    /\ UNCHANGED <<analysisVars, trialVars, runKind, callbacks,
                   numItems, stored, responses>>

\* catch: ResponseTracker.updateEvaluationRunStatus(id, FAILED); throw error
TrackedUpdateFailed ==
    /\ runKind = "runTrackedEvaluation" /\ runPc = "catch"
    /\ runPc' = "threw"
    /\ \/ StatusSet("failed") /\ UNCHANGED thrown
       \/ /\ thrown' = Append(thrown, "updateFailed")
          /\ UNCHANGED <<status, events>>
    /\ result' = [op |-> "runTrackedEvaluation", outcome |-> "threw",
                  error |-> Last(thrown')]
    /\ UNCHANGED <<analysisVars, trialVars, runKind, callbacks,
                   numItems, stored, responses>>

NextRun ==
    \/ CreateEvaluationRun
    \/ OnStart
    \/ UpdateRunning
    \/ GeneratorNext
    \/ SaveModelResponse
    \/ OnResponse
    \/ UpdateCompleted
    \/ OnComplete
    \/ UpdateFailed
    \/ OnError
    \/ TrackedCreate
    \/ TrackedUpdateRunning
    \/ TrackedSingleEvaluation
    \/ TrackedRecordResponse
    \/ TrackedRecordError
    \/ TrackedUpdateCompleted
    \/ TrackedUpdateFailed

SpecRun == InitRun /\ [][NextRun]_vars

----------------------------------------------------------------------------
(* Properties *)

Z196 == [kind |-> "fin", num |-> 49, den |-> 25]

\* x <= -t and x >= t for a z-score x and a finite threshold t >= 0
ZLeqNeg(x, t) ==
    \/ x.kind = "inf" /\ x.sign < 0
    \/ x.kind = "fin" /\ x.sign < 0
         /\ x.sq.num * t.den * t.den >= t.num * t.num * x.sq.den

ZGeq(x, t) ==
    \/ x.kind = "inf" /\ x.sign > 0
    \/ x.kind = "fin" /\ x.sign > 0
         /\ x.sq.num * t.den * t.den >= t.num * t.num * x.sq.den

\* x <= y; every comparison with NaN is false
Leq(x, y) == x.kind # "nan" /\ y.kind # "nan" /\ ~Less(y, x)

WordsSeen == {selections[i].word : i \in 1..Len(selections)}
PositionsSeen == {selections[i].position : i \in 1..Len(selections)}

\* the values of the attribute the recorded runs test was called on
TestedValue(i) == AttributeOf(selections[i], result.attribute)
TestedValues == {TestedValue(i) : i \in 1..Len(selections)}

RunsTested == result.op = "runsTest"

\* the runs test reached the z-score computation
ZScoreComputed ==
    RunsTested /\ Len(selections) >= 10 /\ Cardinality(TestedValues) >= 2

RECURSIVE SumCounts(_)
SumCounts(counts) ==
    IF DOMAIN counts = {} THEN 0
    ELSE LET k == CHOOSE x \in DOMAIN counts : TRUE
         IN counts[k] + SumCounts([j \in DOMAIN counts \ {k} |-> counts[j]])

\* C1: whenever the runs test computes a z-score, isRandom is true exactly
\* when the interpretation is the 'random' one.
C1_FlagAgreesWithInterpretation ==
    ZScoreComputed =>
        (result.value.isRandom <=> result.value.interpretation = RandomText)

\* C2: the word and position frequency maps of a finished evaluation have
\* exactly the observed values as keys, each mapped to its number of
\* occurrences, so the counts sum to the number of records and the empty
\* sequence gives empty maps.
C2_FrequencyMaps ==
    pc = "done" =>
        /\ DOMAIN selectedWords = WordsSeen
        /\ DOMAIN positionBias = PositionsSeen
        /\ \A w \in WordsSeen : selectedWords[w] =
              Cardinality({i \in 1..Len(selections) : selections[i].word = w})
        /\ \A q \in PositionsSeen : positionBias[q] =
              Cardinality({i \in 1..Len(selections) : selections[i].position = q})
        /\ SumCounts(selectedWords) = Len(selections)
        /\ SumCounts(positionBias) = Len(selections)
        /\ (selections = <<>> => selectedWords = EmptyMap /\ positionBias = EmptyMap)

C2_Witness ==
    /\ pc = "done"
    /\ Len(selections) >= 5
    /\ Cardinality(WordsSeen) = 2
    /\ Cardinality(PositionsSeen) = 2
    /\ \E w \in WordsSeen : selectedWords[w] >= 3

C4_InsufficientData ==
    RunsTested =>
        /\ Len(selections) < 10 =>
              result.value =
                 [numberOfRuns |-> 0, expectedRuns |-> Zero, zScore |-> ZZero,
                  isRandom |-> FALSE, interpretation |-> InsufficientText]
        /\ Len(selections) = 10 =>
              result.value.interpretation # InsufficientText

C4_Witness ==
    /\ RunsTested
    /\ Len(selections) = 9
    /\ Cardinality(TestedValues) = 2

\* C5: a runs test on at least 10 records whose tested attribute has a single
\* distinct value reports the all-identical result: not random, z-score 0,
\* one run, and no quotient by the zero standard deviation.
C5_AllIdentical ==
    RunsTested /\ Len(selections) >= 10 /\ Cardinality(TestedValues) = 1 =>
        /\ result.value.isRandom = FALSE
        /\ result.value.zScore = ZZero
        /\ result.value.numberOfRuns = 1
        /\ result.value.interpretation = IdenticalText

C5_Witness ==
    /\ RunsTested
    /\ Len(selections) >= 10
    /\ result.attribute = "word"
    /\ Cardinality(TestedValues) = 1
    /\ Cardinality(PositionsSeen) = 2

\* the tested attribute strictly alternates between two values over 2m >= 10
\* records
TestedAlternates ==
    /\ Len(selections) >= 10
    /\ Len(selections) % 2 = 0
    /\ TestedValue(1) # TestedValue(2)
    /\ \A i \in 3..Len(selections) : TestedValue(i) = TestedValue(i - 2)

\* the tested attribute is m >= 5 records of one value followed by m records
\* of another
TestedClustered ==
    LET m == Len(selections) \div 2
    IN /\ Len(selections) >= 10
       /\ Len(selections) % 2 = 0
       /\ TestedValue(1) # TestedValue(2 * m)
       /\ \A i \in 1..m : TestedValue(i) = TestedValue(1)
       /\ \A i \in (m + 1)..(2 * m) : TestedValue(i) = TestedValue(2 * m)

\* C6: on A,B,A,B,... of 2m >= 10 records the runs test gives z > 1.96,
\* 'alternating' and not random; on m records of A followed by m of B it
\* gives z < -1.96, 'clustering' and not random.
C6_PatternsDetected ==
    RunsTested =>
        /\ TestedAlternates =>
              /\ ZGreater(result.value.zScore, Z196)
              /\ result.value.interpretation = AlternatingText
              /\ result.value.isRandom = FALSE
        /\ TestedClustered =>
              /\ ZLessNeg(result.value.zScore, Z196)
              /\ result.value.interpretation = ClusteringText
              /\ result.value.isRandom = FALSE

C6_Witness ==
    /\ RunsTested
    /\ TestedAlternates
    /\ Len(selections) >= 12
    /\ result.attribute = "position"

ChiSquareCalled == result.op = "calculateChiSquare"

\* C7: calculateChiSquare returns degreesOfFreedom = k - 1 and the
\* interpretation 'random' iff statistic < df, 'mild' iff df <= statistic <
\* 2 df, 'moderate' iff 2 df <= statistic < 3 df, and 'strong' otherwise.
C7_ChiSquareBands ==
    ChiSquareCalled =>
        LET k == Cardinality(DOMAIN observed)
            stat == result.value.chiSquare
            text == result.value.interpretation
            random == Less(stat, Fin(k - 1, 1))
            mild == Leq(Fin(k - 1, 1), stat) /\ Less(stat, Fin(2 * (k - 1), 1))
            moderate == Leq(Fin(2 * (k - 1), 1), stat)
                          /\ Less(stat, Fin(3 * (k - 1), 1))
        IN /\ result.value.degreesOfFreedom = k - 1
           /\ text = ChiRandomText <=> random
           /\ text = ChiMildText <=> mild
           /\ text = ChiModerateText <=> moderate
           /\ text = ChiStrongText <=> ~(random \/ mild \/ moderate)

C7_Witness ==
    /\ ChiSquareCalled
    /\ Cardinality(DOMAIN observed) = 3
    /\ result.value.interpretation = ChiModerateText

\* every one of the k >= 1 observed counts equals total/k, total > 0, and no
\* expected-probability map is given
UniformObserved ==
    /\ expectedProbability = NoMap
    /\ DOMAIN observed # {}
    /\ totalObservations > 0
    /\ \A c \in DOMAIN observed :
          observed[c] * Cardinality(DOMAIN observed) = totalObservations

StatisticOfMap ==
    SumOver(DOMAIN observed,
            [c \in DOMAIN observed |->
                LET e == Mul(Fin(totalObservations, 1), expectedProbability[c])
                    d == Sub(Fin(observed[c], 1), e)
                IN Div(Mul(d, d), e)])

\* C9: given an expected-probability map holding a probability for every
\* observed category, the statistic is the one whose expected counts are
\* total * p_i, whatever the values p_i.
C9_ExpectedFromMap ==
    /\ ChiSquareCalled
    /\ expectedProbability # NoMap
    /\ DOMAIN observed \subseteq DOMAIN expectedProbability
    => result.value.chiSquare = StatisticOfMap

EntropyCalled == result.op = "calculateEntropy"

\* C10: with fewer than 2 categories or a total of 0, calculateEntropy
\* signals InsufficientData and returns neither NaN nor an infinite value.
C10_EntropyInsufficientData ==
    EntropyCalled
      /\ (Cardinality(DOMAIN observed) < 2 \/ totalObservations = 0)
    => /\ result.outcome = "InsufficientData"
       /\ IsFinite(result.value.entropy)
       /\ IsFinite(result.value.normalizedEntropy)

\* the categories of the handed distribution with a non-zero count
NonZeroCategories == {c \in DOMAIN observed : observed[c] # 0}

\* C11: when exactly one category has a non-zero count and that count is the
\* total, calculateEntropy returns entropy 0 and normalizedEntropy 0, however
\* many zero-count categories are listed with it (none included).
C11_SingleCategoryEntropy ==
    /\ EntropyCalled
    /\ Cardinality(NonZeroCategories) = 1
    /\ \A c \in NonZeroCategories : observed[c] = totalObservations
    => /\ result.value.entropy = Zero
       /\ result.value.normalizedEntropy = Zero

StandardDeviationCalled == result.op = "calculateStandardDeviation"

\* C12: with a total of 0 or an empty distribution,
\* calculateStandardDeviation signals InsufficientData and returns neither
\* NaN nor an infinite coefficientOfVariation.
C12_DispersionInsufficientData ==
    StandardDeviationCalled
      /\ (totalObservations = 0 \/ DOMAIN observed = {})
    => /\ result.outcome = "InsufficientData"
       /\ result.value.coefficientOfVariation.kind = "fin"

PositionBiasCalled == result.op = "detectPositionBias"

\* C13: for every record sequence, the empty one included, and every
\* positionCount >= 1, the biasIndex returned by detectPositionBias is a
\* number in the closed interval [0,1].
C13_BiasIndexInUnitInterval ==
    PositionBiasCalled
    => /\ IsFinite(result.value.biasMetrics.biasIndex)
       /\ Leq(Zero, result.value.biasMetrics.biasIndex)
       /\ Leq(result.value.biasMetrics.biasIndex, Fin(1, 1))

\* the number of records selected at a position
SelectedAt(position) ==
    Cardinality({i \in 1..Len(selections) : selections[i].position = position})

\* C14: the positionFrequency map returned by detectPositionBias has exactly
\* the keys 0..positionCount-1, each holding the number of records selected
\* at that position, 0 for a position never selected.
C14_ZeroFilledFrequency ==
    PositionBiasCalled
    => /\ DOMAIN result.value.positionFrequency = 0..(result.positionCount - 1)
       /\ \A i \in DOMAIN result.value.positionFrequency :
            result.value.positionFrequency[i] = SelectedAt(i)

\* C15: hasBias is true iff biasIndex > 0.15 or |maxDeviation| > 0.15;
\* strongestBiasPosition is null iff hasBias is false; the wording is the
\* 'Strong' one iff hasBias and biasIndex > 0.30, the 'Moderate' one iff
\* hasBias and biasIndex <= 0.30, and the 'No significant' one iff not hasBias.
C15_BiasAssessment ==
    PositionBiasCalled
    => LET metrics == result.value.biasMetrics
           assessment == result.value.biasAssessment
           wording == assessment.interpretation.wording
       IN /\ assessment.hasBias
               <=> \/ Less(Fin(15, 100), metrics.biasIndex)
                   \/ Less(Fin(15, 100), AbsNum(metrics.maxDeviation))
          /\ assessment.strongestBiasPosition = Null <=> ~assessment.hasBias
          /\ wording = StrongBiasText
               <=> assessment.hasBias /\ Less(Fin(30, 100), metrics.biasIndex)
          /\ wording = ModerateBiasText
               <=> assessment.hasBias /\ Leq(metrics.biasIndex, Fin(30, 100))
          /\ wording = NoBiasText <=> ~assessment.hasBias

C15_Witness ==
    /\ PositionBiasCalled
    /\ result.value.biasAssessment.interpretation.wording = StrongBiasText
    /\ result.value.biasMetrics.biasIndex = Fin(1, 2)

\* C16: for a non-empty input, maxDeviation is the deviation of largest
\* absolute value among positions 0..positionCount-1, maxDeviationPosition is
\* the lowest position attaining it, and biasDirection is 'preference' iff
\* maxDeviation > 0, 'avoidance' iff maxDeviation < 0, 'none' iff every
\* position's deviation is 0.
C16_MaxDeviation ==
    PositionBiasCalled /\ selections # <<>>
    => LET metrics == result.value.biasMetrics
           slots == 0..(result.positionCount - 1)
           direction == result.value.biasAssessment.biasDirection
           attains(i) == AbsNum(metrics.deviation[i]) = AbsNum(metrics.maxDeviation)
       IN /\ metrics.maxDeviationPosition \in slots
          /\ metrics.maxDeviation = metrics.deviation[metrics.maxDeviationPosition]
          /\ \A i \in slots :
               Leq(AbsNum(metrics.deviation[i]), AbsNum(metrics.maxDeviation))
          /\ \A i \in slots : attains(i) => metrics.maxDeviationPosition <= i
          /\ direction = "preference" <=> Less(Zero, metrics.maxDeviation)
          /\ direction = "avoidance" <=> Less(metrics.maxDeviation, Zero)
          /\ direction = "none" <=> \A i \in slots : metrics.deviation[i] = Zero

\* two positions share the largest absolute deviation, with opposite signs
C16_Witness ==
    /\ PositionBiasCalled /\ selections # <<>>
    /\ result.positionCount = 2
    /\ result.value.biasMetrics.deviation[0] = Fin(1, 1)
    /\ result.value.biasMetrics.deviation[1] = Fin(-1, 1)
    /\ result.value.biasMetrics.maxDeviationPosition = 0

EdgeBiasCalled == result.op = "detectEdgePositionBias"

\* C17: for a non-empty record sequence, detectEdgePositionBias agrees with
\* detectPositionBias on the same arguments: firstPositionBias is
\* deviation[0] and lastPositionBias is deviation[positionCount-1].
C17_EdgeAgreesWithPositionBias ==
    EdgeBiasCalled /\ selections # <<>>
    => LET deviation ==
               detectPositionBias(selections, result.positionCount)
                   .biasMetrics.deviation
       IN /\ result.value.firstPositionBias = deviation[0]
          /\ result.value.lastPositionBias = deviation[result.positionCount - 1]

\* the last position was never selected, so the edge detector reads a
\* missing key
C17_Witness ==
    /\ EdgeBiasCalled /\ selections # <<>>
    /\ result.positionCount = 3
    /\ 2 \notin PositionsSeen
    /\ result.value.lastPositionBias = Fin(-1, 1)
    /\ result.value.firstPositionBias # Fin(-1, 1)

CorrelationCalled == result.op = "detectWordPositionCorrelation"

\* the cell of a category and a position: its observed count, its expected
\* count categoryTotal * positionTotal / grandTotal and its deviation
\* (observed - expected) / expected
CellOf(w, q) ==
    LET joint == Cardinality({i \in 1..Len(selections) :
                     selections[i].word = w /\ selections[i].position = q})
        categoryTotal == Cardinality({i \in 1..Len(selections) :
                             selections[i].word = w})
        expected == Fin(categoryTotal * SelectedAt(q), Len(selections))
    IN [word |-> w, position |-> q, frequency |-> joint, expected |-> expected,
        deviation |-> Div(Sub(Fin(joint, 1), expected), expected)]

\* the cells of the observed categories and positions with |deviation| > 0.30
SignificantCells ==
    {cell \in {CellOf(w, q) : w \in WordsSeen, q \in PositionsSeen} :
        Less(Fin(30, 100), AbsNum(cell.deviation))}

\* C18: significantCorrelations of detectWordPositionCorrelation holds
\* exactly the cells of an observed category and an observed position whose
\* deviation satisfies |deviation| > 0.30, each once, with its observed
\* count, its expected count and its deviation.
C18_SignificantCells ==
    CorrelationCalled
    => LET listed == result.value.significantCorrelations
       IN /\ Range(listed) = SignificantCells
          /\ Len(listed) = Cardinality(SignificantCells)

\* one cell is listed while another, off its expected count, is not
C18_Witness ==
    /\ CorrelationCalled
    /\ result.value.significantCorrelations # <<>>
    /\ \E w \in WordsSeen, q \in PositionsSeen :
         /\ CellOf(w, q).deviation # Zero
         /\ CellOf(w, q) \notin Range(result.value.significantCorrelations)

\* C19: significantCorrelations is ordered by non-increasing |deviation|,
\* and hasSignificantCorrelation is true iff the list is non-empty.
C19_SortedBySize ==
    CorrelationCalled
    => LET listed == result.value.significantCorrelations
       IN /\ \A i, j \in 1..Len(listed) :
               i < j => Leq(AbsNum(listed[j].deviation),
                            AbsNum(listed[i].deviation))
          /\ result.value.hasSignificantCorrelation <=> listed # <<>>

\* a cell found late in the scan is listed ahead of one found before it
C19_Witness ==
    /\ CorrelationCalled
    /\ LET listed == result.value.significantCorrelations
       IN /\ Len(listed) >= 2
          /\ listed[1].word = "B"
          /\ listed[Len(listed)].word = "A"
          /\ selections[1].word = "A"
          /\ Less(AbsNum(listed[Len(listed)].deviation),
                  AbsNum(listed[1].deviation))

AnalyzeRandomnessCalled == result.op = "analyzeRandomness"

\* C20: isUniformDistribution is true iff both the category and the position
\* normalizedEntropy exceed 0.95, isSequentiallyIndependent is true iff both
\* runs tests report isRandom, and the overall interpretation is the one of
\* four fixed texts that the pair of booleans selects.
C20_OverallAssessment ==
    AnalyzeRandomnessCalled
    => LET value == result.value
           overall == value.overallAssessment
           uniform == overall.isUniformDistribution
           independent == overall.isSequentiallyIndependent
       IN /\ uniform
               <=> /\ Less(Fin(95, 100), value.entropy.words.normalizedEntropy)
                   /\ Less(Fin(95, 100), value.entropy.positions.normalizedEntropy)
          /\ independent
               <=> /\ value.sequentialIndependence.words.isRandom
                   /\ value.sequentialIndependence.positions.isRandom
          /\ overall.interpretation = RandomUnbiasedText
               <=> uniform /\ independent
          /\ overall.interpretation = UniformPatternsText
               <=> uniform /\ ~independent
          /\ overall.interpretation = BiasedIndependentText
               <=> ~uniform /\ independent
          /\ overall.interpretation = BiasedPatternsText
               <=> ~uniform /\ ~independent

\* one entropy is above 0.95 and the other is not, with both runs tests random
C20_Witness ==
    /\ AnalyzeRandomnessCalled
    /\ Less(Fin(95, 100), result.value.entropy.words.normalizedEntropy)
    /\ ~Less(Fin(95, 100), result.value.entropy.positions.normalizedEntropy)
    /\ result.value.overallAssessment.isSequentiallyIndependent
    /\ result.value.overallAssessment.interpretation = BiasedIndependentText

\* C21: the entropy, dispersion and chi-square results of analyzeRandomness
\* are those of the category and position frequency distributions of the
\* supplied records with total the number of records, and the returned
\* wordFrequency and positionFrequency are calculateWordFrequency and
\* calculatePositionBias of the records, also for a result produced by
\* runTrackedEvaluation.
C21_AnalysisOfTheRecords ==
    AnalyzeRandomnessCalled
    => LET value == result.value
           words == calculateWordFrequency(selections)
           positions == calculatePositionBias(selections)
           total == Len(selections)
       IN /\ value.wordFrequency = words
          /\ value.positionFrequency = positions
          /\ value.entropy.words = calculateEntropy(words, total)
          /\ value.entropy.positions = calculateEntropy(positions, total)
          /\ value.distribution.words = calculateStandardDeviation(words, total)
          /\ value.distribution.positions
               = calculateStandardDeviation(positions, total)
          /\ value.chiSquare.words = calculateChiSquare(words, total, NoMap)
          /\ value.chiSquare.positions
               = calculateChiSquare(positions, total, NoMap)

\* the SelectionRecord invariant of a record, for a function told the number
\* of positions and for one that is not
ValidRecord(record) ==
    /\ record.position \in 0..(Len(record.originalOrder) - 1)
    /\ record.originalOrder[record.position + 1] = record.word

ValidFor(record, positionCount) ==
    ValidRecord(record) /\ record.position \in 0..(positionCount - 1)

\* the recorded call ingested a record that violates the invariant
IngestedViolation ==
    \/ /\ result.op \in {"detectPositionBias", "detectEdgePositionBias"}
       /\ \E i \in 1..Len(selections) :
            ~ValidFor(selections[i], result.positionCount)
    \/ /\ result.op \in {"detectWordPositionCorrelation", "runsTest"}
       /\ \E i \in 1..Len(selections) : ~ValidRecord(selections[i])

\* C22: an analysis function that ingests a record whose position is out of
\* range, or whose presentationOrder[position] is not the selected category,
\* fails with an explicit error and computes no result.
C22_DomainViolationRejected ==
    IngestedViolation => result.outcome = "DomainViolation"

SingleEvaluationReturned ==
    result.op = "runSingleEvaluation" /\ result.outcome = "returned"

\* the two arrays hold the same words the same number of times
IsPermutation(a, b) ==
    /\ Len(a) = Len(b)
    /\ \A w \in Range(a) \cup Range(b) :
         Cardinality({k \in 1..Len(a) : a[k] = w})
           = Cardinality({k \in 1..Len(b) : b[k] = w})

\* C23: for every option list and every response of the model client, the
\* record that runSingleEvaluation returns has an originalOrder that is a
\* permutation of the options, a position with 0 <= position <
\* len(originalOrder), and originalOrder[position] equal to the selected word.
C23_RecordInvariant ==
    SingleEvaluationReturned
    => LET record == result.value
       IN /\ IsPermutation(record.originalOrder, options)
          /\ 0 <= record.position
          /\ record.position < Len(record.originalOrder)
          /\ record.originalOrder[record.position + 1] = record.word

\* the places of the events of a kind in the order of events
EventsOf(kind) == {k \in 1..Len(events) : events[k].kind = kind}

\* the statuses the run record was given, in order
RECURSIVE StatusesIn(_)
StatusesIn(log) ==
    IF log = <<>> THEN <<>>
    ELSE IF Head(log).kind = "status"
    THEN <<Head(log).detail>> \o StatusesIn(Tail(log))
    ELSE StatusesIn(Tail(log))

RunEvaluationReturned == runKind = "runEvaluation" /\ runPc = "returned"

\* C24: when the generator yields n items and no step throws, runEvaluation
\* takes the status through pending, running, completed in that order, saves
\* one model response per item in yield order, calls onStart once before any
\* response is saved, onResponse once per item after that item is saved,
\* onComplete once after the status became completed, and returns n responses.
C24_CompleteRun ==
    RunEvaluationReturned
    => /\ StatusesIn(events) = <<"pending", "running", "completed">>
       /\ Len(stored) = numItems
       /\ \A i \in 1..Len(stored) : stored[i].promptIndex = i - 1
       /\ Cardinality(EventsOf("save")) = numItems
       /\ \A k, l \in EventsOf("save") :
            k < l => events[k].index < events[l].index
       /\ "onStart" \in callbacks
            => /\ Cardinality(EventsOf("onStart")) = 1
               /\ \A k \in EventsOf("onStart"), l \in EventsOf("save") : k < l
       /\ "onResponse" \in callbacks
            => /\ Cardinality(EventsOf("onResponse")) = numItems
               /\ \A i \in 0..(numItems - 1) :
                    \E k \in EventsOf("save"), l \in EventsOf("onResponse") :
                       /\ events[k].index = i
                       /\ events[l].index = i
                       /\ k < l
       /\ "onComplete" \in callbacks
            => /\ Cardinality(EventsOf("onComplete")) = 1
               /\ \A k \in EventsOf("onComplete") :
                    \E l \in EventsOf("status") :
                       events[l].detail = "completed" /\ l < k
       /\ Len(result.value.responses) = numItems

C24_Witness ==
    /\ RunEvaluationReturned
    /\ numItems = 2
    /\ {"onStart", "onResponse", "onComplete"} \subseteq callbacks
    /\ Len(events) = 9

\* a step of the evaluation threw after the run record was created, and the
\* run function has thrown to its caller
ThrewAfterCreation ==
    /\ runPc = "threw"
    /\ status # "none"
    /\ \/ runKind = "runEvaluation"
       \/ /\ runKind = "runTrackedEvaluation"
          /\ thrown[1] \in {"runSingleEvaluation", "recordResponse"}

\* C25: when a step throws after the run record was created, the stored
\* status ends as failed, onError, if given, is called exactly once with that
\* error, the same error is thrown to the caller, and the responses saved
\* before the failure stay stored.
C25_FailedRun ==
    ThrewAfterCreation
    => /\ status = "failed"
       /\ "onError" \in callbacks
            => /\ Cardinality(EventsOf("onError")) = 1
               /\ \A k \in EventsOf("onError") : events[k].detail = thrown[1]
       /\ result.error = thrown[1]
       /\ SubSeq(stored, 1, Len(responses)) = responses

\* the place of a status along pending -> running -> (completed | failed)
StatusRank(s) ==
    IF s = "pending" THEN 0 ELSE IF s = "running" THEN 1 ELSE 2

\* C30: the status of a run only moves forward along pending -> running ->
\* (completed | failed), completed and failed being terminal: a run set to
\* completed is never afterwards set to failed, also when onComplete throws.
C30_StatusOnlyForward ==
    runKind = "runEvaluation"
    => LET statuses == StatusesIn(events)
       IN \A k, l \in 1..Len(statuses) :
            k < l => StatusRank(statuses[k]) < StatusRank(statuses[l])

\* the pairs of an observed category and an observed position that never
\* occur together
NeverTogether ==
    {pair \in WordsSeen \X PositionsSeen :
        \A i \in 1..Len(selections) :
            ~(selections[i].word = pair[1] /\ selections[i].position = pair[2])}

\* C26: every pair of an observed category and an observed position with
\* joint count 0 has deviation exactly -1 and is listed in
\* significantCorrelations, so hasSignificantCorrelation is false only if
\* every observed category occurs at every observed position.
C26_AbsentPairsListed ==
    CorrelationCalled
    => /\ \A pair \in NeverTogether :
            \E k \in 1..Len(result.value.significantCorrelations) :
               LET entry == result.value.significantCorrelations[k]
               IN /\ entry.word = pair[1]
                  /\ entry.position = pair[2]
                  /\ entry.frequency = 0
                  /\ entry.deviation = Fin(-1, 1)
       /\ ~result.value.hasSignificantCorrelation => NeverTogether = {}

\* a category never occurs at a position that another category occurs at,
\* and the pair is listed
C26_Witness ==
    /\ CorrelationCalled
    /\ NeverTogether # {}
    /\ Cardinality(WordsSeen) = 2
    /\ result.value.hasSignificantCorrelation

\* C27: for a non-empty record sequence and positionCount >= 2,
\* biasIndex <= |maxDeviation|, so hasBias is true iff |maxDeviation| > 0.15.
C27_BiasIndexBelowMaxDeviation ==
    PositionBiasCalled /\ selections # <<>> /\ result.positionCount >= 2
    => LET metrics == result.value.biasMetrics
       IN /\ Leq(metrics.biasIndex, AbsNum(metrics.maxDeviation))
          /\ result.value.biasAssessment.hasBias
               <=> Less(Fin(15, 100), AbsNum(metrics.maxDeviation))

\* the bias index is strictly below a maximal deviation that shows bias
C27_Witness ==
    /\ PositionBiasCalled /\ selections # <<>> /\ result.positionCount = 3
    /\ result.value.biasAssessment.hasBias
    /\ Less(Zero, result.value.biasMetrics.biasIndex)
    /\ Less(result.value.biasMetrics.biasIndex,
            AbsNum(result.value.biasMetrics.maxDeviation))

\* the counts of the runs test: records equal to the first tested value, and
\* the others
TestedN1 ==
    Cardinality({i \in 1..Len(selections) : TestedValue(i) = TestedValue(1)})
TestedN2 == Len(selections) - TestedN1

\* 2*n1*n2*(2*n1*n2 - n1 - n2) / ((n1+n2)^2 * (n1+n2-1))
TestedRadicand ==
    Div(Fin(2 * TestedN1 * TestedN2
              * (2 * TestedN1 * TestedN2 - TestedN1 - TestedN2), 1),
        Fin((TestedN1 + TestedN2) * (TestedN1 + TestedN2)
              * (TestedN1 + TestedN2 - 1), 1))

Min(a, b) == IF a < b THEN a ELSE b

\* C28: with at least 10 records and at least 2 distinct values, the
\* quantity under the square root in runsTest is strictly positive, zScore is
\* a finite number, and the run count R satisfies 2 <= R <= 2*min(n1,n2) + 1.
C28_RadicandPositive ==
    ZScoreComputed
    => /\ Less(Zero, TestedRadicand)
       /\ result.value.zScore.kind = "fin"
       /\ IsFinite(result.value.zScore.sq)
       /\ 2 <= result.value.numberOfRuns
       /\ result.value.numberOfRuns <= 2 * Min(TestedN1, TestedN2) + 1

\* the run count reaches its upper bound with unequal counts
C28_Witness ==
    /\ ZScoreComputed
    /\ TestedN1 # TestedN2
    /\ result.value.numberOfRuns = 2 * Min(TestedN1, TestedN2) + 1

\* C29: with fewer than 10 records, analyzeRandomness reports
\* isSequentiallyIndependent = false and an overall interpretation that says
\* the selections show sequential patterns: the insufficient-data runs result
\* carries isRandom = false and no separate marker.
C29_FewRecordsNotIndependent ==
    AnalyzeRandomnessCalled /\ Len(selections) < 10
    => LET value == result.value
       IN /\ ~value.overallAssessment.isSequentiallyIndependent
          /\ value.overallAssessment.interpretation
               \in {UniformPatternsText, BiasedPatternsText}
          /\ \A runs \in {value.sequentialIndependence.words,
                          value.sequentialIndependence.positions} :
               /\ runs.isRandom = FALSE
               /\ runs.interpretation = InsufficientText
               /\ DOMAIN runs = {"numberOfRuns", "expectedRuns", "zScore",
                                 "isRandom", "interpretation"}

\* few records with a uniform distribution of categories and positions
C29_Witness ==
    /\ AnalyzeRandomnessCalled
    /\ Len(selections) = 4
    /\ result.value.overallAssessment.isUniformDistribution
    /\ result.value.overallAssessment.interpretation = UniformPatternsText

====
